---- MODULE Spec2Model ----
(***************************************************************************)
(* Model of ddccid: a DDC/CI brightness daemon (src/main.rs) and the two   *)
(* library backends (src/ddchi.rs, src/ddcutil.rs).                        *)
(*                                                                         *)
(* SpecBackend : the three BrightnessManager implementations at the level  *)
(*               of one call, with a millisecond clock.                    *)
(* Spec        : the daemon of src/main.rs: start_daemon, the accept loop, *)
(*               handle_client workers, send_command clients.              *)
(***************************************************************************)
EXTENDS Integers, Sequences, FiniteSets, TLC

(* ------------------------------ bounds -------------------------------- *)
NumDisplays == 2
NumDaemons == 2
NumConns == 2
MaxTime == 800
TickMs == 100

(* ------------------------- program constants -------------------------- *)
\* ddchi.rs: const COOLDOWN: Duration = Duration::from_millis(200)
COOLDOWN == 200
\* std::cmp::min(100, value)
MaxBrightness == 100
U16Max == 65535
I16Min == -32768
I16Max == 32767

Displays == 1..NumDisplays
\* displays[0] / displays.get(0): the first enumerated display
FirstDisplay == 1

(* --------------------------- Result<u16> ------------------------------ *)
Ok(v) == [tag |-> "ok", val |-> v]
Err == [tag |-> "err", val |-> 0]
Panic == [tag |-> "panic", val |-> 0]

(* ------------------------- integer arithmetic ------------------------- *)
\* u16::saturating_sub
SaturatingSub(a, b) == IF a < b THEN 0 ELSE a - b
\* u16::saturating_add
SaturatingAdd(a, b) == IF a + b > U16Max THEN U16Max ELSE a + b
\* `x as i16` for x: u16 (two's complement reinterpretation)
AsI16(u) == IF u > I16Max THEN u - (U16Max + 1) ELSE u
\* `x as u16` for x: i16
AsU16(i) == IF i < 0 THEN i + (U16Max + 1) ELSE i
\* unary minus on i16: overflows only for i16::MIN
NegOverflows(i) == i = I16Min
\* the wrapped result of unary minus on i16 (overflow checks off)
WrappingNeg(i) == IF i = I16Min THEN I16Min ELSE 0 - i

\* std::cmp::min(100, value)
Clamped(value) == IF MaxBrightness < value THEN MaxBrightness ELSE value

\* adjust_brightness: the value handed to set_brightness.  `checks` is the
\* build's overflow-checks setting: with it a negation overflow panics,
\* without it the negation wraps.
AdjustNewValue(current, delta, checks) ==
    IF delta < 0
    THEN IF NegOverflows(delta) /\ checks
         THEN Panic
         ELSE Ok(SaturatingSub(current, AsU16(WrappingNeg(delta))))
    ELSE Ok(SaturatingAdd(current, AsU16(delta)))

VARIABLES
    backend,        \* which BrightnessManager implementation is under test
    overflowChecks, \* build profile: TRUE = overflow checks (debug)
    now,            \* monotonic clock, ms
    hw,             \* hw[d]: brightness held by display d
    last_set,       \* DdcHiBackend.last_set
    last_get,       \* DdcHiBackend.last_get
    temp,           \* DdcHiBackend.temp
    out,            \* what the last call returned and which displays it touched
    dpc,            \* dpc[d]: where daemon process d is in start_daemon
    sock,           \* SOCKET_PATH: whether it exists, and the daemon that bound it
    pidfile,        \* PID_FILE: whether it exists, and the pid written to it
    conn,           \* conn[c]: one client connection and its worker
    lock,           \* lock[d]: the connection whose worker holds d's manager Mutex
    poisoned        \* poisoned[d]: a worker of d panicked holding the Mutex

bvars == <<backend, overflowChecks, now, hw, last_set, last_get, temp, out>>
\* the variables of the backends that the daemon leaves alone
bfix == <<backend, overflowChecks, now, last_set, last_get, temp, out>>
dvars == <<dpc, sock, pidfile, conn, lock, poisoned>>
vars == <<bvars, dvars>>

(* ---------------------- inputs of the backend spec -------------------- *)
\* brightness the displays hold at construction
InitLevels == {50}
\* values requested through set_brightness
SetInputs == {30, 150}
\* steps handed to adjust_brightness (i16)
StepInputs == {I16Min, -70, 70, I16Max}
Backends == {"ddchi", "ddcutil", "main"}

\* the record of one call: the operation, its argument, the time it was made,
\* what it returned, and the displays it attempted a read / a write on
NoCall ==
    [op |-> "none", arg |-> 0, at |-> 0, ret |-> Ok(0), readOn |-> {}, wroteOn |-> {}]
Call(op, arg, ret, readOn, wroteOn) ==
    [op |-> op, arg |-> arg, at |-> now, ret |-> ret, readOn |-> readOn,
     wroteOn |-> wroteOn]

\* the displays after a write of `value` attempted on `targets`, failing on `fail`
Written(targets, fail, value) ==
    [d \in Displays |-> IF d \in targets /\ d \notin fail THEN value ELSE hw[d]]

(* --------------------------- DdcHiBackend ----------------------------- *)
\* new(): enumerate, read displays[0] into temp, both timestamps = now
InitDdcHi ==
    /\ last_set = now
    /\ last_get = now
    /\ temp = hw[FirstDisplay]

\* mutant: the read cooldown measured from the last write
ReadCooldownActiveMut == now - last_set < COOLDOWN
\* get_brightness: `self.last_get.get().elapsed() < COOLDOWN`
ReadCooldownActive == now - last_get < COOLDOWN
\* set_brightness: `self.last_set.get().elapsed() < COOLDOWN * 2`
WriteCooldown == COOLDOWN * 2
WriteCooldownActive == now - last_set < WriteCooldown
\* set_brightness inside the cooldown: `return Ok(self.temp.get())`
SuppressedSetResult(value) == Ok(temp)

\* mutant: the read time is stored before the read is known to have succeeded
DdcHiGetMut ==
    /\ backend = "ddchi"
    /\ IF ReadCooldownActive
       THEN /\ out' = Call("get", 0, Ok(temp), {}, {})
            /\ UNCHANGED <<last_get, temp>>
       ELSE \E readOk \in BOOLEAN :
            /\ last_get' = now
            /\ IF readOk
               THEN /\ temp' = hw[FirstDisplay]
                    /\ out' = Call("get", 0, Ok(hw[FirstDisplay]), {FirstDisplay}, {})
               ELSE /\ out' = Call("get", 0, Err, {FirstDisplay}, {})
                    /\ UNCHANGED temp
    /\ UNCHANGED <<backend, overflowChecks, now, hw, last_set>>
    /\ UNCHANGED dvars

DdcHiGet ==
    /\ backend = "ddchi"
    /\ IF ReadCooldownActive
       THEN /\ out' = Call("get", 0, Ok(temp), {}, {})
            /\ UNCHANGED <<last_get, temp>>
       ELSE \E readOk \in BOOLEAN :
            IF readOk
            THEN /\ last_get' = now
                 /\ temp' = hw[FirstDisplay]
                 /\ out' = Call("get", 0, Ok(hw[FirstDisplay]), {FirstDisplay}, {})
            ELSE /\ out' = Call("get", 0, Err, {FirstDisplay}, {})
                 /\ UNCHANGED <<last_get, temp>>
    /\ UNCHANGED <<backend, overflowChecks, now, hw, last_set>>
    /\ UNCHANGED dvars

DdcHiSet(value) ==
    /\ backend = "ddchi"
    /\ IF WriteCooldownActive
       THEN /\ out' = Call("set", value, SuppressedSetResult(value), {}, {})
            /\ UNCHANGED <<hw, last_set, temp>>
       ELSE \E fail \in SUBSET Displays :
            /\ hw' = Written(Displays, fail, Clamped(value))
            /\ last_set' = now
            /\ temp' = Clamped(value)
            /\ out' = Call("set", value, Ok(Clamped(value)), {}, Displays)
    /\ UNCHANGED <<backend, overflowChecks, now, last_get>>
    /\ UNCHANGED dvars

(* --------------------------- DdcutilBackend --------------------------- *)
DdcutilGetResult(readOk) == IF readOk THEN Ok(hw[FirstDisplay]) ELSE Err

\* set_brightness: sequential loop, `?` leaves the loop at the first failure
FirstFailure(fail) == CHOOSE d \in fail : \A e \in fail : d <= e
DdcutilAttempted(fail) ==
    IF fail = {} THEN Displays ELSE {d \in Displays : d <= FirstFailure(fail)}
DdcutilSetResult(value, fail) == IF fail = {} THEN Ok(Clamped(value)) ELSE Err

DdcutilGet ==
    /\ backend = "ddcutil"
    /\ \E readOk \in BOOLEAN :
         /\ out' = Call("get", 0, DdcutilGetResult(readOk), {FirstDisplay}, {})
    /\ UNCHANGED <<backend, overflowChecks, now, hw, last_set, last_get, temp>>
    /\ UNCHANGED dvars

DdcutilSet(value) ==
    /\ backend = "ddcutil"
    /\ \E fail \in SUBSET Displays :
         /\ hw' = Written(DdcutilAttempted(fail), fail, Clamped(value))
         /\ out' = Call("set", value, DdcutilSetResult(value, fail), {},
                        DdcutilAttempted(fail))
    /\ UNCHANGED <<backend, overflowChecks, now, last_set, last_get, temp>>
    /\ UNCHANGED dvars

DdcutilAdjust(step) ==
    /\ backend = "ddcutil"
    /\ \E readOk \in BOOLEAN, fail \in SUBSET Displays :
         LET new == AdjustNewValue(hw[FirstDisplay], step, overflowChecks) IN
         IF ~readOk
         THEN /\ out' = Call("adjust", step, Err, {FirstDisplay}, {})
              /\ UNCHANGED hw
         ELSE IF new.tag = "panic"
         THEN /\ out' = Call("adjust", step, Panic, {FirstDisplay}, {})
              /\ UNCHANGED hw
         ELSE /\ hw' = Written(DdcutilAttempted(fail), fail, Clamped(new.val))
              /\ out' = Call("adjust", step, DdcutilSetResult(new.val, fail),
                             {FirstDisplay}, DdcutilAttempted(fail))
    /\ UNCHANGED <<backend, overflowChecks, now, last_set, last_get, temp>>
    /\ UNCHANGED dvars

(* ------------------- main.rs BrightnessManager ------------------------ *)
\* get_brightness: displays.get(0).open()?.vcp_get_value(10)?
MainGetResult(readOk) == IF readOk THEN Ok(hw[FirstDisplay]) ELSE Err
\* set_brightness: one scoped thread per display; each thread's Result is
\* dropped with its join handle; `Ok(clamped_value)` after the scope
MainSetResult(value, fail) == Ok(Clamped(value))
MainAttempted(fail) == Displays

MainGet ==
    /\ backend = "main"
    /\ \E readOk \in BOOLEAN :
         /\ out' = Call("get", 0, MainGetResult(readOk), {FirstDisplay}, {})
    /\ UNCHANGED <<backend, overflowChecks, now, hw, last_set, last_get, temp>>
    /\ UNCHANGED dvars

MainSet(value) ==
    /\ backend = "main"
    /\ \E fail \in SUBSET Displays :
         /\ hw' = Written(MainAttempted(fail), fail, Clamped(value))
         /\ out' = Call("set", value, MainSetResult(value, fail), {}, MainAttempted(fail))
    /\ UNCHANGED <<backend, overflowChecks, now, last_set, last_get, temp>>
    /\ UNCHANGED dvars

MainAdjust(delta) ==
    /\ backend = "main"
    /\ \E readOk \in BOOLEAN, fail \in SUBSET Displays :
         LET new == AdjustNewValue(hw[FirstDisplay], delta, overflowChecks) IN
         IF ~readOk
         THEN /\ out' = Call("adjust", delta, Err, {FirstDisplay}, {})
              /\ UNCHANGED hw
         ELSE IF new.tag = "panic"
         THEN /\ out' = Call("adjust", delta, Panic, {FirstDisplay}, {})
              /\ UNCHANGED hw
         ELSE /\ hw' = Written(MainAttempted(fail), fail, Clamped(new.val))
              /\ out' = Call("adjust", delta, MainSetResult(new.val, fail),
                             {FirstDisplay}, MainAttempted(fail))
    /\ UNCHANGED <<backend, overflowChecks, now, last_set, last_get, temp>>
    /\ UNCHANGED dvars

(* ------------------------------ the clock ----------------------------- *)
Tick ==
    /\ now + TickMs <= MaxTime
    /\ now' = now + TickMs
    /\ UNCHANGED <<backend, overflowChecks, hw, last_set, last_get, temp, out>>
    /\ UNCHANGED dvars

InitBackend ==
    /\ backend \in Backends
    \* only adjust_brightness negates; DdcHiBackend has none
    /\ overflowChecks \in (IF backend = "ddchi" THEN {FALSE} ELSE BOOLEAN)
    /\ now = 0
    /\ hw \in [Displays -> InitLevels]
    /\ InitDdcHi
    /\ out = NoCall
   
    /\ sock = [exists |-> FALSE, owner |-> 0]
    /\ dpc = <<>>
    /\ pidfile = [exists |-> FALSE, owner |-> 0]
    /\ conn = <<>>
    /\ lock = <<>>
    /\ poisoned = <<>>

NextBackend ==
    \/ Tick
    \/ DdcHiGet
    \/ \E v \in SetInputs : DdcHiSet(v)
    \/ DdcutilGet
    \/ \E v \in SetInputs : DdcutilSet(v)
    \/ \E s \in StepInputs : DdcutilAdjust(s)
    \/ MainGet
    \/ \E v \in SetInputs : MainSet(v)
    \/ \E s \in StepInputs : MainAdjust(s)

SpecBackend == InitBackend /\ [][NextBackend]_vars


(* ====================================================================== *)
(*                    main.rs: the line protocol (pure)                    *)
(* ====================================================================== *)
\* A request is a sequence of one-character strings.  "xFF" stands for a byte
\* that is not valid UTF-8.
Digits == <<"0", "1", "2", "3", "4", "5", "6", "7", "8", "9">>
IsDigit(ch) == \E i \in 1..10 : Digits[i] = ch
DigitVal(ch) == (CHOOSE i \in 1..10 : Digits[i] = ch) - 1
\* char::is_whitespace (the Unicode White_Space property) on the characters a
\* string of this module can hold: U+0009..U+000D, U+0020, U+0085, U+00A0 and
\* U+1680 (the white space from U+2000 on cannot be written in a string here)
IsWhite(ch) == ch \in {" ", "\n", "\t", "\r", "\f", "", "", " ", " "}
IsUtf8(bytes) == \A i \in 1..Len(bytes) : bytes[i] # "xFF"

RECURSIVE TrimStart(_)
TrimStart(s) == IF s # <<>> /\ IsWhite(Head(s)) THEN TrimStart(Tail(s)) ELSE s
RECURSIVE TrimEnd(_)
TrimEnd(s) ==
    IF s # <<>> /\ IsWhite(s[Len(s)]) THEN TrimEnd(SubSeq(s, 1, Len(s) - 1)) ELSE s
\* str::trim
Trim(s) == TrimEnd(TrimStart(s))

\* str::starts_with
StartsWith(s, prefix) ==
    Len(s) >= Len(prefix) /\ SubSeq(s, 1, Len(prefix)) = prefix
\* str::strip_prefix, for s that starts with prefix
StripPrefix(s, prefix) == SubSeq(s, Len(prefix) + 1, Len(s))

\* the value of a digit string, stopping at the first overflow of u16
RECURSIVE DigitsValue(_, _)
DigitsValue(s, acc) ==
    IF s = <<>> THEN acc
    ELSE IF acc * 10 + DigitVal(Head(s)) > U16Max THEN U16Max + 1
    ELSE DigitsValue(Tail(s), acc * 10 + DigitVal(Head(s)))

\* str::parse::<u16>: an optional leading "+", then one or more ASCII digits,
\* no sign-only input, no "-", no blanks, no value above u16::MAX
ParseU16(s) ==
    LET body == IF s # <<>> /\ Head(s) = "+" THEN Tail(s) ELSE s IN
    IF body = <<>> \/ \E i \in 1..Len(body) : ~IsDigit(body[i])
    THEN [ok |-> FALSE, val |-> 0]
    ELSE IF DigitsValue(body, 0) > U16Max
    THEN [ok |-> FALSE, val |-> 0]
    ELSE [ok |-> TRUE, val |-> DigitsValue(body, 0)]

\* `.parse().unwrap_or(dflt)`
ParseOr(s, dflt) == IF ParseU16(s).ok THEN ParseU16(s).val ELSE dflt

UpPrefix == <<"u", "p", " ">>
DownPrefix == <<"d", "o", "w", "n", " ">>
SetPrefix == <<"s", "e", "t", " ">>
GetWord == <<"g", "e", "t">>
StopWord == <<"s", "t", "o", "p">>
DefaultStep == 5
DefaultValue == 50

\* mutant: a command that matches no arm is served as `get`
RequestMut(line) ==
    LET command == Trim(line) IN
    IF StartsWith(command, UpPrefix)
    THEN [cmd |-> "up", arg |-> ParseOr(StripPrefix(command, UpPrefix), DefaultStep)]
    ELSE IF StartsWith(command, DownPrefix)
    THEN [cmd |-> "down", arg |-> ParseOr(StripPrefix(command, DownPrefix), DefaultStep)]
    ELSE IF StartsWith(command, SetPrefix)
    THEN [cmd |-> "set", arg |-> ParseOr(StripPrefix(command, SetPrefix), DefaultValue)]
    ELSE IF command = StopWord THEN [cmd |-> "stop", arg |-> 0]
    ELSE [cmd |-> "get", arg |-> 0]

\* handle_client: `match command { ... }` on the trimmed request
Request(line) ==
    LET command == Trim(line) IN
    IF command = GetWord THEN [cmd |-> "get", arg |-> 0]
    ELSE IF StartsWith(command, UpPrefix)
    THEN [cmd |-> "up", arg |-> ParseOr(StripPrefix(command, UpPrefix), DefaultStep)]
    ELSE IF StartsWith(command, DownPrefix)
    THEN [cmd |-> "down", arg |-> ParseOr(StripPrefix(command, DownPrefix), DefaultStep)]
    ELSE IF StartsWith(command, SetPrefix)
    THEN [cmd |-> "set", arg |-> ParseOr(StripPrefix(command, SetPrefix), DefaultValue)]
    ELSE IF command = StopWord THEN [cmd |-> "stop", arg |-> 0]
    ELSE [cmd |-> "unknown", arg |-> 0]

\* the i16 handed to adjust_brightness: `step as i16` for up, `-(step as i16)`
\* for down; the negation panics on overflow when the build checks overflow
StepOf(req, checks) ==
    IF req.cmd = "up" THEN Ok(AsI16(req.arg))
    ELSE IF NegOverflows(AsI16(req.arg)) /\ checks THEN Panic
    ELSE Ok(WrappingNeg(AsI16(req.arg)))

\* responses on the wire
NoResp == [kind |-> "none", val |-> 0]
RespJson(v) == [kind |-> "json", val |-> v]
RespErrJson == [kind |-> "errjson", val |-> 0]
RespOk(v) == [kind |-> "OK", val |-> v]
RespError == [kind |-> "ERROR", val |-> 0]
RespUnknown == [kind |-> "ERROR unknown command", val |-> 0]
RespStopping == [kind |-> "OK stopping", val |-> 0]
\* the peer closed the stream and no line was written
RespEof == [kind |-> "eof", val |-> 0]
\* the read failed: the peer went away with the request unread (ECONNRESET)
RespReset == [kind |-> "reset", val |-> 0]

(* ====================================================================== *)
(*              main.rs: start_daemon, handle_client, send_command         *)
(* ====================================================================== *)
Daemons == 1..NumDaemons
Conns == 1..NumConns
NoHolder == 0

\* resp: the line the worker has written to the stream; response: the
\* worker's `let response = match command {...}`, not yet written; cur: the
\* brightness adjust_brightness has read (`let current = ...`); val: the
\* clamped_value of the set_brightness in progress; wrote: the displays whose
\* scoped thread has finished
IdleConn ==
    [cst |-> "idle", wst |-> "none", srv |-> 0, line |-> <<>>, resp |-> NoResp,
     response |-> NoResp, cur |-> 0, val |-> 0, wrote |-> {}]
\* a worker that has returned or died: its stream is dropped ("reset": the
\* daemon exited before it had read what the client wrote)
WorkerGone(c) == conn[c].wst \in {"done", "dropped", "dead", "reset"}

\* a path of the file system: absent, or present and owned by a daemon process
\* (owner 0: left behind by a process that no longer exists)
NoFile == [exists |-> FALSE, owner |-> 0]
FileOf(d) == [exists |-> TRUE, owner |-> d]
StaleFile == [exists |-> TRUE, owner |-> 0]
\* the socket path leads to a bound listener
SocketLive == sock.exists /\ sock.owner \in Daemons

\* mutant: only a socket somebody listens on counts as existing
SocketPathExistsMut == SocketLive
\* start_daemon: `if Path::new(SOCKET_PATH).exists()`
SocketPathExists == sock.exists

\* start_daemon, line 1: the socket-path check
DaemonStart(d) ==
    /\ dpc[d] = "init"
    /\ dpc' = [dpc EXCEPT ![d] = IF SocketPathExists THEN "already_running" ELSE "pid"]
    /\ UNCHANGED <<sock, pidfile, conn, lock, poisoned, hw, bfix>>

\* start_daemon: std::fs::write(PID_FILE, process::id().to_string())
WritePid(d) ==
    /\ dpc[d] = "pid"
    /\ pidfile' = FileOf(d)
    /\ dpc' = [dpc EXCEPT ![d] = "mgr"]
    /\ UNCHANGED <<sock, conn, lock, poisoned, hw, bfix>>

\* start_daemon: BrightnessManager::new()? - enumeration may fail or be empty
NewManager(d) ==
    /\ dpc[d] = "mgr"
    /\ \E enumOk \in BOOLEAN :
         dpc' = [dpc EXCEPT ![d] = IF enumOk THEN "bind" ELSE "no_displays"]
    /\ UNCHANGED <<sock, pidfile, conn, lock, poisoned, hw, bfix>>

\* start_daemon: UnixListener::bind(SOCKET_PATH)? - fails when the path exists
Bind(d) ==
    /\ dpc[d] = "bind"
    /\ IF SocketPathExists
       THEN /\ dpc' = [dpc EXCEPT ![d] = "bind_failed"]
            /\ UNCHANGED sock
       ELSE /\ dpc' = [dpc EXCEPT ![d] = "listening"]
            /\ sock' = FileOf(d)
    /\ UNCHANGED <<pidfile, conn, lock, poisoned, hw, bfix>>

\* send_command: connect, writeln!(stream, "{}", command), then read_line;
\* the stream stays open for writing while the client waits
SendCommand(c, command) ==
    /\ conn[c].cst = "idle"
    /\ SocketLive
    /\ conn' = [conn EXCEPT ![c] =
                  [cst |-> "waiting", wst |-> "backlog", srv |-> sock.owner,
                   line |-> command \o <<"\n">>, resp |-> NoResp,
                   response |-> NoResp, cur |-> 0, val |-> 0, wrote |-> {}]]
    /\ UNCHANGED <<dpc, sock, pidfile, lock, poisoned, hw, bfix>>

\* another client of the socket: writes its bytes, shuts down its writing
\* half, then reads
RawRequest(c, bytes) ==
    /\ conn[c].cst = "idle"
    /\ SocketLive
    /\ conn' = [conn EXCEPT ![c] =
                  [cst |-> "shut", wst |-> "backlog", srv |-> sock.owner,
                   line |-> bytes, resp |-> NoResp, response |-> NoResp,
                   cur |-> 0, val |-> 0, wrote |-> {}]]
    /\ UNCHANGED <<dpc, sock, pidfile, lock, poisoned, hw, bfix>>

\* the client process is killed while it waits: its stream closes
ClientAbort(c) ==
    /\ conn[c].cst = "waiting"
    /\ conn' = [conn EXCEPT ![c].cst = "closed"]
    /\ UNCHANGED <<dpc, sock, pidfile, lock, poisoned, hw, bfix>>

\* send_command: UnixStream::connect(SOCKET_PATH)? fails - no such path, or
\* a path nobody listens on; the CLI goes on in the `Err` arm of its command
SendCommandFails(c, command) ==
    /\ conn[c].cst = "idle"
    /\ ~SocketLive
    /\ conn' = [conn EXCEPT ![c] =
                  [IdleConn EXCEPT !.cst = "failed", !.line = command \o <<"\n">>]]
    /\ UNCHANGED <<dpc, sock, pidfile, lock, poisoned, hw, bfix>>

\* read_line returns: a line the worker wrote, end of stream, or an error when
\* the stream was reset; the error sends a send_command client to the `Err`
\* arm of its command
ClientRead(c) ==
    /\ conn[c].cst \in {"waiting", "shut"}
    /\ conn[c].resp # NoResp \/ WorkerGone(c)
    /\ conn' = [conn EXCEPT
                  ![c].cst = IF conn[c].cst = "waiting" /\ conn[c].wst = "reset"
                             THEN "failed" ELSE "got",
                  ![c].resp = IF conn[c].resp # NoResp THEN conn[c].resp
                              ELSE IF conn[c].wst = "reset" THEN RespReset
                              ELSE RespEof]
    /\ UNCHANGED <<dpc, sock, pidfile, lock, poisoned, hw, bfix>>

\* both ends are finished (the CLI has exited, a worker if any is gone): the
\* connection is gone
ConnClosed(c) ==
    /\ conn[c].cst \in {"got", "closed", "exited"}
    /\ WorkerGone(c) \/ conn[c].wst = "none"
    /\ conn' = [conn EXCEPT ![c] = IdleConn]
    /\ UNCHANGED <<dpc, sock, pidfile, lock, poisoned, hw, bfix>>

\* mutant: the accept loop handles each connection itself, one at a time
AcceptMut(c) ==
    /\ conn[c].wst = "backlog"
    /\ dpc[conn[c].srv] = "listening"
    /\ \A k \in Conns \ {c} :
         conn[k].wst \in {"none", "backlog", "done", "dropped", "dead"}
    /\ conn' = [conn EXCEPT ![c].wst = "reading"]
    /\ UNCHANGED <<dpc, sock, pidfile, lock, poisoned, hw, bfix>>

\* start_daemon: `for stream in listener.incoming()` + thread::spawn
Accept(c) ==
    /\ conn[c].wst = "backlog"
    /\ dpc[conn[c].srv] = "listening"
    /\ conn' = [conn EXCEPT ![c].wst = "reading"]
    /\ UNCHANGED <<dpc, sock, pidfile, lock, poisoned, hw, bfix>>

\* handle_client: stream.read_to_string(&mut line) returns at end of stream,
\* that is once the client has shut down or closed its writing half
ReadReturns(c) == conn[c].cst \in {"shut", "closed"}

\* handle_client up to the match: read, trim, and the arms that need no
\* manager ("stop" writes its acknowledgement here, the `_` arm yields its
\* response)
WorkerRead(c) ==
    /\ conn[c].wst = "reading"
    /\ ReadReturns(c)
    /\ LET req == Request(conn[c].line) IN
       conn' = [conn EXCEPT ![c] =
           IF ~IsUtf8(conn[c].line) THEN [@ EXCEPT !.wst = "dropped"]
           ELSE IF req.cmd = "unknown"
           THEN [@ EXCEPT !.wst = "responding", !.response = RespUnknown]
           ELSE IF req.cmd = "stop"
           THEN [@ EXCEPT !.wst = "stop_ack", !.resp = RespStopping]
           ELSE [@ EXCEPT !.wst = "wantlock"]]
    /\ UNCHANGED <<dpc, sock, pidfile, lock, poisoned, hw, bfix>>

\* mutant: a lock that excludes nobody
WorkerLockMut(c) ==
    /\ conn[c].wst = "wantlock"
    /\ IF poisoned[conn[c].srv]
       THEN /\ conn' = [conn EXCEPT ![c].wst = "dropped"]
            /\ UNCHANGED lock
       ELSE /\ conn' = [conn EXCEPT ![c].wst = "locked"]
            /\ lock' = [lock EXCEPT ![conn[c].srv] = c]
    /\ UNCHANGED <<dpc, sock, pidfile, poisoned, hw, bfix>>

\* manager.lock().unwrap(): blocks while held, panics when poisoned
WorkerLock(c) ==
    /\ conn[c].wst = "wantlock"
    /\ lock[conn[c].srv] = NoHolder
    /\ IF poisoned[conn[c].srv]
       THEN /\ conn' = [conn EXCEPT ![c].wst = "dropped"]
            /\ UNCHANGED lock
       ELSE /\ conn' = [conn EXCEPT ![c].wst = "locked"]
            /\ lock' = [lock EXCEPT ![conn[c].srv] = c]
    /\ UNCHANGED <<dpc, sock, pidfile, poisoned, hw, bfix>>

\* the worker panics with the guard alive: the Mutex is poisoned and released
WorkerPanics(c) ==
    /\ conn' = [conn EXCEPT ![c].wst = "dropped"]
    /\ poisoned' = [poisoned EXCEPT ![conn[c].srv] = TRUE]
    /\ lock' = [lock EXCEPT ![conn[c].srv] = NoHolder]

\* the match arm yields the response; the guard, a temporary of the arm's
\* inner match, is dropped with it
WorkerResponds(c, response) ==
    /\ conn' = [conn EXCEPT ![c].wst = "responding", ![c].response = response]
    /\ lock' = [lock EXCEPT ![conn[c].srv] = NoHolder]
    /\ UNCHANGED poisoned

\* "get" arm: get_brightness under the lock, one read of the first display
WorkerGet(c) ==
    /\ conn[c].wst = "locked"
    /\ Request(conn[c].line).cmd = "get"
    /\ \E readOk \in BOOLEAN :
         WorkerResponds(c, IF MainGetResult(readOk).tag = "ok"
                           THEN RespJson(MainGetResult(readOk).val)
                           ELSE RespErrJson)
    /\ UNCHANGED <<dpc, sock, pidfile, hw, bfix>>

\* "set " arm: set_brightness up to the scope, `min(100, value)`
WorkerSet(c) ==
    /\ conn[c].wst = "locked"
    /\ Request(conn[c].line).cmd = "set"
    /\ conn' = [conn EXCEPT ![c].wst = "writing",
                            ![c].val = Clamped(Request(conn[c].line).arg),
                            ![c].wrote = {}]
    /\ UNCHANGED <<dpc, sock, pidfile, lock, poisoned, hw, bfix>>

\* "up "/"down " arm: the step computed in the caller, then
\* adjust_brightness: `let current = self.get_brightness()?`
WorkerAdjustRead(c) ==
    /\ conn[c].wst = "locked"
    /\ Request(conn[c].line).cmd \in {"up", "down"}
    /\ LET step == StepOf(Request(conn[c].line), overflowChecks) IN
       \E readOk \in BOOLEAN :
         IF step.tag = "panic" THEN WorkerPanics(c)
         ELSE IF MainGetResult(readOk).tag # "ok" THEN WorkerResponds(c, RespError)
         ELSE /\ conn' = [conn EXCEPT ![c].wst = "adjusting",
                                      ![c].cur = MainGetResult(readOk).val]
              /\ UNCHANGED <<lock, poisoned>>
    /\ UNCHANGED <<dpc, sock, pidfile, hw, bfix>>

\* adjust_brightness: new_value from `current`, then self.set_brightness up
\* to the scope
WorkerAdjustSet(c) ==
    /\ conn[c].wst = "adjusting"
    /\ LET step == StepOf(Request(conn[c].line), overflowChecks)
           new == AdjustNewValue(conn[c].cur, step.val, overflowChecks) IN
       IF new.tag = "panic" THEN WorkerPanics(c)
       ELSE /\ conn' = [conn EXCEPT ![c].wst = "writing",
                                    ![c].val = Clamped(new.val),
                                    ![c].wrote = {}]
            /\ UNCHANGED <<lock, poisoned>>
    /\ UNCHANGED <<dpc, sock, pidfile, hw, bfix>>

\* set_brightness, one scoped thread: open and write its display, the
\* result dropped
WorkerWriteDisplay(c, d) ==
    /\ conn[c].wst = "writing"
    /\ d \notin conn[c].wrote
    /\ \E fail \in {{}, {d}} : hw' = Written({d}, fail, conn[c].val)
    /\ conn' = [conn EXCEPT ![c].wrote = @ \cup {d}]
    /\ UNCHANGED <<dpc, sock, pidfile, lock, poisoned, bfix>>

\* set_brightness after the scope: Ok(clamped_value), which the arm formats
WorkerSetLeave(c) ==
    /\ conn[c].wst = "writing"
    /\ conn[c].wrote = Displays
    /\ WorkerResponds(c, RespOk(conn[c].val))
    /\ UNCHANGED <<dpc, sock, pidfile, hw, bfix>>

\* handle_client: `let _ = writeln!(stream, "{}", response)`, after which the
\* worker returns and its stream is dropped
WorkerWrite(c) ==
    /\ conn[c].wst = "responding"
    /\ conn' = [conn EXCEPT ![c].wst = "done", ![c].resp = conn[c].response]
    /\ UNCHANGED <<dpc, sock, pidfile, lock, poisoned, hw, bfix>>

\* mutant: the socket path is left in place
StopRemoveSocketMut(c) ==
    /\ conn[c].wst = "stop_ack"
    /\ conn' = [conn EXCEPT ![c].wst = "stop_sock"]
    /\ UNCHANGED <<dpc, sock, pidfile, lock, poisoned, hw, bfix>>

\* "stop" arm: std::fs::remove_file(SOCKET_PATH)
StopRemoveSocket(c) ==
    /\ conn[c].wst = "stop_ack"
    /\ sock' = NoFile
    /\ conn' = [conn EXCEPT ![c].wst = "stop_sock"]
    /\ UNCHANGED <<dpc, pidfile, lock, poisoned, hw, bfix>>

\* "stop" arm: std::fs::remove_file(PID_FILE)
StopRemovePid(c) ==
    /\ conn[c].wst = "stop_sock"
    /\ pidfile' = NoFile
    /\ conn' = [conn EXCEPT ![c].wst = "stop_pid"]
    /\ UNCHANGED <<dpc, sock, lock, poisoned, hw, bfix>>

\* "stop" arm: process::exit(0) - every thread and stream of the daemon ends.
\* A stream that was never accepted is reset for its client; so is one whose
\* worker had not yet taken the request out of the socket (unread)
StopExit(c) ==
    /\ conn[c].wst = "stop_pid"
    /\ dpc' = [dpc EXCEPT ![conn[c].srv] = "stopped"]
    /\ \E unread \in SUBSET {k \in Conns : conn[k].srv = conn[c].srv
                                             /\ conn[k].wst = "reading"} :
         conn' = [k \in Conns |->
                    IF conn[k].srv = conn[c].srv
                       /\ conn[k].wst \notin {"none", "done", "dropped", "dead", "reset"}
                    THEN [conn[k] EXCEPT !.wst = IF conn[k].wst = "backlog" \/ k \in unread
                                                 THEN "reset" ELSE "dead"]
                    ELSE conn[k]]
    /\ lock' = [lock EXCEPT ![conn[c].srv] = NoHolder]
    /\ UNCHANGED <<sock, pidfile, poisoned, hw, bfix>>

(* ------------------ the CLI when send_command fails ------------------- *)
\* the command of a CLI run, as the request line it sent or would have sent
CliCommand(c) == Request(conn[c].line)

\* main, Commands::Stop, `Err(e)`: std::fs::remove_file(SOCKET_PATH)
StopCleanupSocket(c) ==
    /\ conn[c].cst = "failed"
    /\ CliCommand(c).cmd = "stop"
    /\ sock' = NoFile
    /\ conn' = [conn EXCEPT ![c].cst = "cleanup_pid"]
    /\ UNCHANGED <<dpc, pidfile, lock, poisoned, hw, bfix>>

\* main, Commands::Stop, `Err(e)`: std::fs::remove_file(PID_FILE), and the
\* CLI returns
StopCleanupPid(c) ==
    /\ conn[c].cst = "cleanup_pid"
    /\ pidfile' = NoFile
    /\ conn' = [conn EXCEPT ![c].cst = "exited"]
    /\ UNCHANGED <<dpc, sock, lock, poisoned, hw, bfix>>

\* main, Commands::Get/Up/Down/Set, `Err(_)`: BrightnessManager::new() of the
\* CLI's own manager; when it fails get exits 1 and the others do nothing
DirectNew(c) ==
    /\ conn[c].cst = "failed"
    /\ CliCommand(c).cmd \in {"get", "up", "down", "set"}
    /\ \E enumOk \in BOOLEAN :
         conn' = [conn EXCEPT ![c].cst = IF enumOk THEN "direct" ELSE "exited"]
    /\ UNCHANGED <<dpc, sock, pidfile, lock, poisoned, hw, bfix>>

\* Commands::Get, direct: one read of the first display, printed or reported
DirectGet(c) ==
    /\ conn[c].cst = "direct"
    /\ CliCommand(c).cmd = "get"
    /\ conn' = [conn EXCEPT ![c].cst = "exited"]
    /\ UNCHANGED <<dpc, sock, pidfile, lock, poisoned, hw, bfix>>

\* Commands::Set, direct: set_brightness up to the scope
DirectSet(c) ==
    /\ conn[c].cst = "direct"
    /\ CliCommand(c).cmd = "set"
    /\ conn' = [conn EXCEPT ![c].cst = "dwriting",
                            ![c].val = Clamped(CliCommand(c).arg),
                            ![c].wrote = {}]
    /\ UNCHANGED <<dpc, sock, pidfile, lock, poisoned, hw, bfix>>

\* Commands::Up/Down, direct: the step, then the read of adjust_brightness;
\* a panic or a failing read ends the CLI
DirectAdjustRead(c) ==
    /\ conn[c].cst = "direct"
    /\ CliCommand(c).cmd \in {"up", "down"}
    /\ LET step == StepOf(CliCommand(c), overflowChecks) IN
       \E readOk \in BOOLEAN :
         IF step.tag = "panic" \/ MainGetResult(readOk).tag # "ok"
         THEN conn' = [conn EXCEPT ![c].cst = "exited"]
         ELSE conn' = [conn EXCEPT ![c].cst = "dadjusting",
                                   ![c].cur = MainGetResult(readOk).val]
    /\ UNCHANGED <<dpc, sock, pidfile, lock, poisoned, hw, bfix>>

\* Commands::Up/Down, direct: new_value, then set_brightness up to the scope
DirectAdjustSet(c) ==
    /\ conn[c].cst = "dadjusting"
    /\ LET step == StepOf(CliCommand(c), overflowChecks)
           new == AdjustNewValue(conn[c].cur, step.val, overflowChecks) IN
       IF new.tag = "panic"
       THEN conn' = [conn EXCEPT ![c].cst = "exited"]
       ELSE conn' = [conn EXCEPT ![c].cst = "dwriting",
                                 ![c].val = Clamped(new.val),
                                 ![c].wrote = {}]
    /\ UNCHANGED <<dpc, sock, pidfile, lock, poisoned, hw, bfix>>

\* direct set_brightness, one scoped thread: no lock of any daemon is held
DirectWriteDisplay(c, d) ==
    /\ conn[c].cst = "dwriting"
    /\ d \notin conn[c].wrote
    /\ \E fail \in {{}, {d}} : hw' = Written({d}, fail, conn[c].val)
    /\ conn' = [conn EXCEPT ![c].wrote = @ \cup {d}]
    /\ UNCHANGED <<dpc, sock, pidfile, lock, poisoned, bfix>>

\* direct set_brightness after the scope: the result is dropped, the CLI ends
DirectLeave(c) ==
    /\ conn[c].cst = "dwriting"
    /\ conn[c].wrote = Displays
    /\ conn' = [conn EXCEPT ![c].cst = "exited"]
    /\ UNCHANGED <<dpc, sock, pidfile, lock, poisoned, hw, bfix>>

(* ------------------------------ the CLI ------------------------------- *)
\* what one run of the CLI leaves: the line on standard output (NoResp: none)
\* and the exit status (101: the status of a Rust panic)
Outcome(stdout, code) == [stdout |-> stdout, code |-> code]

\* main, `Ok(response)` of send_command: get prints the line it read, the
\* other commands print nothing; the line is empty when the stream ended
DaemonOutcome(req, response) ==
    IF req.cmd = "get" THEN Outcome(response, 0) ELSE Outcome(NoResp, 0)

\* main, `Err(_)` of send_command: the one-shot manager.  get prints the JSON
\* or, when new() or the read fails, exits 1 after a message on standard
\* error; up, down and set do nothing when new() fails and drop the result
\* otherwise; the step arithmetic, evaluated once new() has succeeded, panics
\* on overflow in a checked build
DirectOutcome(req, enumOk, readOk, checks, current) ==
    IF req.cmd = "get"
    THEN IF enumOk /\ readOk THEN Outcome(RespJson(current), 0) ELSE Outcome(NoResp, 1)
    ELSE IF req.cmd = "set" \/ ~enumOk THEN Outcome(NoResp, 0)
    ELSE IF StepOf(req, checks).tag = "panic" THEN Outcome(NoResp, 101)
    ELSE IF readOk /\ AdjustNewValue(current, StepOf(req, checks).val, checks).tag = "panic"
    THEN Outcome(NoResp, 101)
    ELSE Outcome(NoResp, 0)

(* ------------------------- the serving daemon ------------------------- *)
\* Spec: one daemon process serving one connection at a time
ServingDaemons == {1}
ServedConns == {1}
\* commands the CLI sends through send_command
CliCommands ==
    { GetWord, StopWord,
      <<"s", "e", "t", " ", "1", "5", "0">>,
      <<"u", "p", " ", "5", "0">>,
      <<"d", "o", "w", "n", " ", "5", "0">>,
      <<"u", "p", " ", "6", "0", "0", "0", "0">>,
      <<"d", "o", "w", "n", " ", "6", "0", "0", "0", "0">>,
      <<"d", "o", "w", "n", " ", "3", "2", "7", "6", "8">>,
      <<"u", "p", " ", "3", "2", "7", "6", "8">> }
\* byte strings other clients send
RawRequests ==
    { c \o <<"\n">> : c \in CliCommands }
      \cup { <<"b", "o", "g", "u", "s", "\n">>, <<"g", "e", "t">>, <<"xFF">>,
             <<"g", "e", "t", "\f", "\n">> }

InitDaemonVars ==
    /\ dpc = [d \in Daemons |-> "init"]
    /\ pidfile = NoFile
    /\ conn = [c \in Conns |-> IdleConn]
    /\ lock = [d \in Daemons |-> NoHolder]
    /\ poisoned = [d \in Daemons |-> FALSE]

Init ==
    /\ backend = "main"
    /\ overflowChecks \in BOOLEAN
    /\ now = 0
    /\ hw = [d \in Displays |-> 50]
    /\ InitDdcHi
    /\ out = NoCall
   
    /\ sock = NoFile
    /\ InitDaemonVars

Next ==
    \/ \E d \in ServingDaemons : DaemonStart(d)
    \/ \E d \in ServingDaemons : WritePid(d)
    \/ \E d \in ServingDaemons : NewManager(d)
    \/ \E d \in ServingDaemons : Bind(d)
    \/ \E c \in ServedConns, command \in CliCommands : SendCommand(c, command)
    \/ \E c \in ServedConns, command \in CliCommands : SendCommandFails(c, command)
    \/ \E c \in ServedConns : DirectNew(c)
    \/ \E c \in ServedConns : DirectGet(c)
    \/ \E c \in ServedConns : DirectSet(c)
    \/ \E c \in ServedConns : DirectAdjustRead(c)
    \/ \E c \in ServedConns : DirectAdjustSet(c)
    \/ \E c \in ServedConns, d \in Displays : DirectWriteDisplay(c, d)
    \/ \E c \in ServedConns : DirectLeave(c)
    \/ \E c \in ServedConns : StopCleanupSocket(c)
    \/ \E c \in ServedConns : StopCleanupPid(c)
    \/ \E c \in ServedConns, bytes \in RawRequests : RawRequest(c, bytes)
    \/ \E c \in ServedConns : ClientAbort(c)
    \/ \E c \in ServedConns : ClientRead(c)
    \/ \E c \in ServedConns : ConnClosed(c)
    \/ \E c \in ServedConns : Accept(c)
    \/ \E c \in ServedConns : WorkerRead(c)
    \/ \E c \in ServedConns : WorkerLock(c)
    \/ \E c \in ServedConns : WorkerGet(c)
    \/ \E c \in ServedConns : WorkerSet(c)
    \/ \E c \in ServedConns : WorkerAdjustRead(c)
    \/ \E c \in ServedConns : WorkerAdjustSet(c)
    \/ \E c \in ServedConns, d \in Displays : WorkerWriteDisplay(c, d)
    \/ \E c \in ServedConns : WorkerSetLeave(c)
    \/ \E c \in ServedConns : WorkerWrite(c)
    \/ \E c \in ServedConns : StopRemoveSocket(c)
    \/ \E c \in ServedConns : StopRemovePid(c)
    \/ \E c \in ServedConns : StopExit(c)

Spec == Init /\ [][Next]_vars

(* ------------------------ the daemon life cycle ----------------------- *)
\* SpecLifecycle: every daemon process may be started, at any time; two
\* clients ask for a stop, the first as `ddccid stop` does, the second ending
\* its writing.  The socket path may be left over from an earlier run.
StopRequest == StopWord \o <<"\n">>
LifecycleConns == {1, 2}
CliConns == {1}
RawConns == {2}

InitLifecycle ==
    /\ backend = "main"
    /\ overflowChecks \in BOOLEAN
    /\ now = 0
    /\ hw = [d \in Displays |-> 50]
    /\ InitDdcHi
    /\ out = NoCall
   
    /\ sock \in {NoFile, StaleFile}
    /\ InitDaemonVars

NextLifecycle ==
    \/ \E d \in Daemons : DaemonStart(d)
    \/ \E d \in Daemons : WritePid(d)
    \/ \E d \in Daemons : NewManager(d)
    \/ \E d \in Daemons : Bind(d)
    \/ \E c \in CliConns : SendCommand(c, StopWord)
    \/ \E c \in CliConns : SendCommandFails(c, StopWord)
    \/ \E c \in CliConns : StopCleanupSocket(c)
    \/ \E c \in CliConns : StopCleanupPid(c)
    \/ \E c \in RawConns : RawRequest(c, StopRequest)
    \/ \E c \in LifecycleConns : ClientAbort(c)
    \/ \E c \in LifecycleConns : ClientRead(c)
    \/ \E c \in LifecycleConns : ConnClosed(c)
    \/ \E c \in LifecycleConns : Accept(c)
    \/ \E c \in LifecycleConns : WorkerRead(c)
    \/ \E c \in LifecycleConns : StopRemoveSocket(c)
    \/ \E c \in LifecycleConns : StopRemovePid(c)
    \/ \E c \in LifecycleConns : StopExit(c)

SpecLifecycle == InitLifecycle /\ [][NextLifecycle]_vars

(* ------------------ the daemon serving two connections --------------- *)
\* SpecConcurrent: a listening daemon and two clients, each making one
\* request.  What keeps the read and the writes of one command together is
\* the Mutex and nothing else.

ConcurrentConns == {1, 2}
\* requests of clients that end their writing
ConcurrentRequests ==
    { GetWord \o <<"\n">>,
      <<"u", "p", " ", "7", "0", "\n">>,
      <<"d", "o", "w", "n", " ", "7", "0", "\n">>,
      <<"s", "e", "t", " ", "3", "0", "\n">>,
      <<"b", "o", "g", "u", "s", "\n">> }

\* daemon 1 has started and listens
InitConcurrent ==
    /\ backend = "main"
    /\ overflowChecks \in BOOLEAN
    /\ now = 0
    /\ hw = [d \in Displays |-> 50]
    /\ InitDdcHi
    /\ out = NoCall
    /\ dpc = [d \in Daemons |-> IF d = 1 THEN "listening" ELSE "init"]
    /\ sock = FileOf(1)
    /\ pidfile = FileOf(1)
    /\ conn = [c \in Conns |-> IdleConn]
    /\ lock = [d \in Daemons |-> NoHolder]
    /\ poisoned = [d \in Daemons |-> FALSE]

NextConcurrent ==
    \/ \E c \in ConcurrentConns : SendCommand(c, GetWord)
    \/ \E c \in ConcurrentConns, bytes \in ConcurrentRequests : RawRequest(c, bytes)
    \/ \E c \in ConcurrentConns : ClientAbort(c)
    \/ \E c \in ConcurrentConns : ClientRead(c)
    \/ \E c \in ConcurrentConns : Accept(c)
    \/ \E c \in ConcurrentConns : WorkerRead(c)
    \/ \E c \in ConcurrentConns : WorkerLock(c)
    \/ \E c \in ConcurrentConns : WorkerGet(c)
    \/ \E c \in ConcurrentConns : WorkerSet(c)
    \/ \E c \in ConcurrentConns : WorkerAdjustRead(c)
    \/ \E c \in ConcurrentConns : WorkerAdjustSet(c)
    \/ \E c \in ConcurrentConns, d \in Displays : WorkerWriteDisplay(c, d)
    \/ \E c \in ConcurrentConns : WorkerSetLeave(c)
    \/ \E c \in ConcurrentConns : WorkerWrite(c)

SpecConcurrent == InitConcurrent /\ [][NextConcurrent]_vars

(* ------------- requests without a usable argument ------------------- *)
\* SpecDefaults: a listening daemon and two clients, each making one request
\* whose numeric argument is missing or is no u16.

\* up, down and set requests without an argument
UpNoArg == <<"u", "p", "\n">>
DownNoArg == <<"d", "o", "w", "n", " ", "\n">>
SetNoArg == <<"s", "e", "t", "\n">>
\* up, down and set requests whose argument is no u16
UpBadArg == <<"u", "p", " ", "x", "\n">>
DownBadArg == <<"d", "o", "w", "n", " ", "x", "\n">>
SetBadArg == <<"s", "e", "t", " ", "9", "9", "9", "9", "9", "\n">>

DefaultRequests == {UpNoArg, DownNoArg, SetNoArg, UpBadArg, DownBadArg, SetBadArg}

InitDefaults == InitConcurrent

NextDefaults ==
    \/ \E c \in ConcurrentConns, bytes \in DefaultRequests : RawRequest(c, bytes)
    \/ \E c \in ConcurrentConns : ClientRead(c)
    \/ \E c \in ConcurrentConns : Accept(c)
    \/ \E c \in ConcurrentConns : WorkerRead(c)
    \/ \E c \in ConcurrentConns : WorkerLock(c)
    \/ \E c \in ConcurrentConns : WorkerSet(c)
    \/ \E c \in ConcurrentConns : WorkerAdjustRead(c)
    \/ \E c \in ConcurrentConns : WorkerAdjustSet(c)
    \/ \E c \in ConcurrentConns, d \in Displays : WorkerWriteDisplay(c, d)
    \/ \E c \in ConcurrentConns : WorkerSetLeave(c)
    \/ \E c \in ConcurrentConns : WorkerWrite(c)

SpecDefaults == InitDefaults /\ [][NextDefaults]_vars

\* SpecDirect: daemon 1 is about to bind while two CLI runs and raw clients
\* make their requests.  A run whose connect fails before the bind works on
\* the displays through a manager of its own and takes no lock, so that its
\* read and its writes interleave with those of the daemon's worker and of
\* the other run.
DirectConns == {1, 2}
\* `ddccid up --step 10` and `ddccid set 30`, as send_command formats them
DirectCommands ==
    { <<"u", "p", " ", "1", "0">>, <<"s", "e", "t", " ", "3", "0">> }
\* the same requests from clients that end their writing
DirectRequests == { command \o <<"\n">> : command \in DirectCommands }

\* daemon 1 has written its pid and built its manager; nothing is bound yet
InitDirect ==
    /\ backend = "main"
    /\ overflowChecks \in BOOLEAN
    /\ now = 0
    /\ hw = [d \in Displays |-> 50]
    /\ InitDdcHi
    /\ out = NoCall
    /\ dpc = [d \in Daemons |-> IF d = 1 THEN "bind" ELSE "init"]
    /\ sock = NoFile
    /\ pidfile = FileOf(1)
    /\ conn = [c \in Conns |-> IdleConn]
    /\ lock = [d \in Daemons |-> NoHolder]
    /\ poisoned = [d \in Daemons |-> FALSE]

NextDirect ==
    \/ \E d \in {1} : Bind(d)
    \/ \E c \in DirectConns, command \in DirectCommands : SendCommandFails(c, command)
    \/ \E c \in DirectConns : DirectNew(c)
    \/ \E c \in DirectConns : DirectSet(c)
    \/ \E c \in DirectConns : DirectAdjustRead(c)
    \/ \E c \in DirectConns : DirectAdjustSet(c)
    \/ \E c \in DirectConns, d \in Displays : DirectWriteDisplay(c, d)
    \/ \E c \in DirectConns : DirectLeave(c)
    \/ \E c \in DirectConns, bytes \in DirectRequests : RawRequest(c, bytes)
    \/ \E c \in DirectConns : ClientRead(c)
    \/ \E c \in DirectConns : Accept(c)
    \/ \E c \in DirectConns : WorkerRead(c)
    \/ \E c \in DirectConns : WorkerLock(c)
    \/ \E c \in DirectConns : WorkerSet(c)
    \/ \E c \in DirectConns : WorkerAdjustRead(c)
    \/ \E c \in DirectConns : WorkerAdjustSet(c)
    \/ \E c \in DirectConns, d \in Displays : WorkerWriteDisplay(c, d)
    \/ \E c \in DirectConns : WorkerSetLeave(c)
    \/ \E c \in DirectConns : WorkerWrite(c)

SpecDirect == InitDirect /\ [][NextDirect]_vars

(* ------------- set_brightness, one display write at a time ------------ *)
\* SpecFanOut: set_brightness of the two thread-per-display managers, taken
\* apart into its entry, the write of each scoped thread, and what follows
\* the scope.  `out` is the call in progress: wroteOn grows with the threads
\* that have finished.
Pending == [tag |-> "pending", val |-> 0]

\* set_brightness up to the scope: the cooldown check (DdcHiBackend) and the clamp
SetEnter(value) ==
    /\ backend \in {"ddchi", "main"}
    /\ out.ret # Pending
    /\ IF backend = "ddchi" /\ WriteCooldownActive
       THEN out' = Call("set", value, SuppressedSetResult(value), {}, {})
       ELSE out' = Call("set", value, Pending, {}, {})
    /\ UNCHANGED <<backend, overflowChecks, now, hw, last_set, last_get, temp>>
    /\ UNCHANGED dvars

\* one scoped thread: the write to its display, the result dropped
SetWriteDisplay(d) ==
    /\ out.ret = Pending
    /\ d \notin out.wroteOn
    /\ \E fail \in {{}, {d}} : hw' = Written({d}, fail, Clamped(out.arg))
    /\ out' = [out EXCEPT !.wroteOn = @ \cup {d}]
    /\ UNCHANGED <<backend, overflowChecks, now, last_set, last_get, temp>>
    /\ UNCHANGED dvars

\* mutant: the threads are detached, the caller goes on after the first one
ScopeJoinedMut == out.wroteOn # {}
\* std::thread::scope returns once every thread it spawned has finished
ScopeJoined == out.wroteOn = Displays

\* set_brightness after the scope: the cache (DdcHiBackend) and the result
SetLeave ==
    /\ out.ret = Pending
    /\ ScopeJoined
    /\ IF backend = "ddchi"
       THEN last_set' = now /\ temp' = Clamped(out.arg)
       ELSE UNCHANGED <<last_set, temp>>
    /\ out' = [out EXCEPT !.ret = Ok(Clamped(out.arg))]
    /\ UNCHANGED <<backend, overflowChecks, now, hw, last_get>>
    /\ UNCHANGED dvars

FanOutInputs == {150}

InitFanOut == InitBackend /\ backend \in {"ddchi", "main"} /\ ~overflowChecks

NextFanOut ==
    \/ Tick
    \/ \E v \in FanOutInputs : SetEnter(v)
    \/ \E d \in Displays : SetWriteDisplay(d)
    \/ SetLeave

SpecFanOut == InitFanOut /\ [][NextFanOut]_vars

(* ----------------------- a get whose read fails ---------------------- *)
\* SpecReadFailure: the two places where a get meets a failing read: the
\* caching manager called directly, and the daemon's manager behind
\* handle_client.
InitReadFailure ==
    \/ InitBackend /\ backend = "ddchi"
    \/ Init

NextReadFailure ==
    \/ backend = "ddchi" /\ Tick
    \/ backend = "ddchi" /\ DdcHiGet
    \/ backend = "ddchi" /\ \E v \in SetInputs : DdcHiSet(v)
    \/ backend = "main" /\ Next

SpecReadFailure == InitReadFailure /\ [][NextReadFailure]_vars

(* ====================================================================== *)
(*                                CLAIMS                                   *)
(* ====================================================================== *)
Min(a, b) == IF a < b THEN a ELSE b

SetCall(v) == DdcHiSet(v) \/ DdcutilSet(v) \/ MainSet(v)

\* C1 (stated as the claim): a set_brightness(v) made less than WRITE_COOLDOWN
\* after the previous real write returns min(v,100) and writes to no display.
C1_OptimisticEcho ==
    [][\A v \in SetInputs :
         (DdcHiSet(v) /\ now - last_set < WriteCooldown)
            => /\ out'.ret = Ok(Min(v, MaxBrightness))
               /\ out'.wroteOn = {}
               /\ hw' = hw]_vars

\* the part of C1 the code does satisfy: a suppressed set touches no display
C1_SuppressedSetWritesNothing ==
    [][\A v \in SetInputs :
         (DdcHiSet(v) /\ now - last_set < WriteCooldown)
            => (out'.wroteOn = {} /\ hw' = hw)]_vars

\* the time of the last hardware read of brightness: the caching manager
\* records it; the other managers read on every get
LastHardwareRead == IF backend = "ddchi" THEN last_get ELSE out.at

\* C2 (stated as the claim): when the previous call was a successful get and a
\* second get is made less than READ_COOLDOWN after the last hardware read,
\* the second get reads no display and returns the identical value.
C2_SecondGetFromCache ==
    [][((DdcHiGet \/ MainGet) /\ out.op = "get" /\ out.ret.tag = "ok"
          /\ now - LastHardwareRead < COOLDOWN)
         => (out'.readOn = {} /\ out'.ret = out.ret)]_vars

\* the part of C2 the code does satisfy: the caching manager alone
C2_SecondGetFromCacheDdcHi ==
    [][(DdcHiGet /\ out.op = "get" /\ out.ret.tag = "ok"
          /\ now - last_get < COOLDOWN)
         => (out'.readOn = {} /\ out'.ret = out.ret)]_vars

\* C4 (stated as the claim): every set(v) that returns a value returns
\* min(v,100), and every display the write changes then holds min(v,100).
C4_SetReturnsClamped ==
    [][\A v \in SetInputs :
         SetCall(v)
            => /\ out'.ret.tag = "ok" => out'.ret.val = Min(v, MaxBrightness)
               /\ \A d \in Displays :
                    hw'[d] # hw[d] => hw'[d] = Min(v, MaxBrightness)]_vars

\* C6 (stated as the claim): a set that reaches hardware attempts the write on
\* every display and returns success whichever displays fail.
C6_BestEffortFanOut ==
    [][\A v \in SetInputs :
         (SetCall(v) /\ out'.wroteOn # {})
            => (out'.wroteOn = Displays /\ out'.ret.tag = "ok")]_vars

\* the part of C6 the code does satisfy: the two thread-per-display managers
C6_BestEffortFanOutThreaded ==
    [][\A v \in SetInputs :
         ((DdcHiSet(v) \/ MainSet(v)) /\ out'.wroteOn # {})
            => (out'.wroteOn = Displays /\ out'.ret.tag = "ok")]_vars

\* C7 (stated as the claim): when a burst of set calls that reached hardware
\* at least once has ended with a set(v), and a whole write cooldown has gone
\* by with no further call, every display that took the manager's last real
\* write holds min(v,100).
C7_BurstConverges ==
    (backend = "ddchi" /\ out.op = "set" /\ last_set > 0
       /\ now - out.at >= WriteCooldown)
        => \A d \in Displays : hw[d] = temp => hw[d] = Min(out.arg, MaxBrightness)

\* C8: a get_brightness made READ_COOLDOWN or more after the last hardware read
\* attempts exactly one read, on the first display, changes no display, and
\* when the read succeeds returns the value read and stores it and the read
\* time in the cache.
C8_Freshness ==
    [][(DdcHiGet /\ now - last_get >= COOLDOWN)
         => /\ out'.readOn = {FirstDisplay}
            /\ out'.wroteOn = {}
            /\ hw' = hw
            /\ out'.ret.tag = "ok"
                 => /\ out'.ret.val = hw[FirstDisplay]
                    /\ temp' = hw[FirstDisplay]
                    /\ last_get' = now']_vars

\* a fresh read replaced the cached value of a real write: the write failed on
\* the first display alone, so the cache held the written value, which every
\* other display shows, until this get read the first display again
C8_Witness ==
    /\ backend = "ddchi"
    /\ out.op = "get" /\ out.readOn = {FirstDisplay} /\ out.ret = Ok(hw[FirstDisplay])
    /\ last_get = out.at /\ last_get >= last_set /\ last_set > 0
    /\ temp = hw[FirstDisplay]
    /\ hw[FirstDisplay] \in InitLevels
    /\ \A d \in Displays \ {FirstDisplay} : hw[d] \notin InitLevels

\* C3 (stated as the claim): a send_command client and its worker never end up
\* each waiting on the other: the client in read_line with no response to
\* read, while the worker is in a read of the request that cannot return.
C3_NoMutualWait ==
    \A c \in Conns :
        ~(/\ conn[c].cst = "waiting" /\ conn[c].resp = NoResp
          /\ conn[c].wst = "reading" /\ ~ReadReturns(c))

\* worker c holds the manager lock and is inside its manager operation
InManager(c) == conn[c].wst \in {"locked", "adjusting", "writing"}
\* one step of the manager operation of worker c
ManagerStep(c) ==
    \/ WorkerGet(c) \/ WorkerSet(c) \/ WorkerAdjustRead(c) \/ WorkerAdjustSet(c)
    \/ (\E d \in Displays : WorkerWriteDisplay(c, d)) \/ WorkerSetLeave(c)
\* the brightness the operation of worker c reads or has read
CurrentOf(c) == IF conn[c].wst = "locked" THEN hw[FirstDisplay] ELSE conn[c].cur

Down60000 == <<"d", "o", "w", "n", " ", "6", "0", "0", "0", "0", "\n">>
Up60000 == <<"u", "p", " ", "6", "0", "0", "0", "0", "\n">>

\* C5 (stated as the claim): no up/down request makes the worker's arithmetic
\* overflow, every value reported is within 0..100, and from brightness 50
\* `down 60000` reports 0 and then `up 60000` reports 100.
C5_AdjustStaysInRange ==
    [][\A c \in Conns :
         /\ (WorkerAdjustRead(c) \/ WorkerAdjustSet(c)) => ~poisoned'[conn[c].srv]
         /\ (WorkerSetLeave(c) /\ Request(conn[c].line).cmd \in {"up", "down"})
               => /\ conn'[c].response.val \in 0..MaxBrightness
                  /\ (conn[c].line = Down60000 /\ conn[c].cur = 50)
                        => conn'[c].response.val = 0
                  /\ (conn[c].line = Up60000 /\ conn[c].cur = 0)
                        => conn'[c].response.val = MaxBrightness]_vars

\* the part of C5 the code does satisfy: every value reported is within 0..100
C5_ReportedWithinRange ==
    [][\A c \in Conns :
         ((WorkerGet(c) \/ WorkerSetLeave(c))
             /\ conn'[c].response.kind \in {"OK", "json"})
            => conn'[c].response.val \in 0..MaxBrightness]_vars

\* C9: a start_daemon that finds the socket path present, bound or stale, ends
\* at once as already running; it leaves the socket path and the pid file as
\* they are, and never goes on to construct a manager or bind a listener.
C9_StartRefused ==
    [][\A d \in Daemons :
         /\ (DaemonStart(d) /\ sock.exists)
               => (dpc'[d] = "already_running" /\ sock' = sock /\ pidfile' = pidfile)
         /\ dpc[d] = "already_running" => dpc'[d] = "already_running"]_vars

\* a start was refused while another daemon is listening on the socket path
C9_Witness ==
    \E d, e \in Daemons :
        dpc[d] = "already_running" /\ dpc[e] = "listening" /\ sock = FileOf(e)

\* a start was refused because of a socket path nobody listens on
C9_WitnessStale ==
    \E d \in Daemons : dpc[d] = "already_running" /\ sock = StaleFile

\* C10: the worker that exits the daemon on `stop` has written `OK stopping`
\* and has removed the socket path and the pid file of its daemon; when no
\* other daemon is being started, neither path exists after the exit; and a
\* start made once every other daemon has stopped is not refused.
C10_Shutdown ==
    [][/\ \A c \in Conns :
            StopExit(c)
               => /\ conn[c].resp = RespStopping
                  /\ sock # FileOf(conn[c].srv) /\ pidfile # FileOf(conn[c].srv)
                  /\ dpc'[conn[c].srv] = "stopped"
                  /\ (\A e \in Daemons \ {conn[c].srv} :
                         dpc[e] \in {"init", "already_running", "stopped"})
                        => (sock' = NoFile /\ pidfile' = NoFile)
       /\ \A c \in Conns :
            (StopRemoveSocket(c) \/ StopRemovePid(c)) => conn[c].resp = RespStopping
       /\ \A c \in Conns : StopRemovePid(c) => sock # FileOf(conn[c].srv)
       /\ \A e \in Daemons :
            (DaemonStart(e) /\ \A d \in Daemons \ {e} : dpc[d] = "stopped")
               => dpc'[e] = "pid"]_vars

\* a daemon has stopped on `stop`: its client holds the acknowledgement, both
\* paths are gone, and no other daemon has been started yet
C10_Witness ==
    \E d \in Daemons :
        /\ dpc[d] = "stopped"
        /\ \A e \in Daemons \ {d} : dpc[e] = "init"
        /\ sock = NoFile /\ pidfile = NoFile
        /\ \E c \in Conns :
             conn[c].srv = d /\ conn[c].cst = "got" /\ conn[c].resp = RespStopping

\* a worker blocked in read_to_string: its client keeps the writing half open
BlockedReader(c) == conn[c].wst = "reading" /\ ~ReadReturns(c)
\* a client has sent its request and ended its writing; its worker is not done
Unserved(k) == conn[k].cst = "shut" /\ ~WorkerGone(k)
\* the next step of the daemon for connection k
WorkerStep(k) ==
    \/ Accept(k) \/ WorkerRead(k) \/ WorkerLock(k)
    \/ WorkerGet(k) \/ WorkerSet(k) \/ WorkerAdjustRead(k) \/ WorkerAdjustSet(k)
    \/ (\E d \in Displays : WorkerWriteDisplay(k, d)) \/ WorkerSetLeave(k)
    \/ WorkerWrite(k)

\* C11: a worker that has not finished reading its request holds no lock on
\* the manager; while one worker is blocked reading, the daemon can always
\* take the next step for every other client that has sent its request (that
\* client is accepted, read, locked, run and answered), and the finished
\* worker has written a response that the client can read.
C11_NoStarvation ==
    /\ \A c \in Conns :
         conn[c].wst \in {"backlog", "reading"} => lock[conn[c].srv] # c
    /\ \A c \in Conns : \A k \in Conns \ {c} :
         BlockedReader(c) =>
            /\ Unserved(k) => ENABLED WorkerStep(k)
            /\ (conn[k].cst = "shut" /\ WorkerGone(k))
                  => (conn[k].resp # NoResp /\ ENABLED ClientRead(k))

\* one worker is blocked reading while another worker holds the manager lock
\* and is between the two hardware transactions of its command
C11_Witness ==
    \E c \in Conns : \E k \in Conns \ {c} :
        BlockedReader(c) /\ conn[k].wst = "adjusting" /\ lock[conn[k].srv] = k

Bogus == <<"b", "o", "g", "u", "s", "\n">>
\* what the daemon and the displays hold, apart from the connections
DaemonState == <<hw, lock, poisoned, dpc, sock, pidfile>>

\* C12: the worker that has read `bogus` goes straight to its response, which
\* is exactly the line `ERROR unknown command`, writes it and returns,
\* dropping its stream; it never asks for the manager lock; and no step of
\* that connection, from connect to close, changes the displays, the lock or
\* the daemon, which is all that the handling of a later connection depends on.
C12_UnknownCommand ==
    [][\A c \in Conns :
         /\ (WorkerRead(c) /\ conn[c].line = Bogus)
               => /\ conn'[c].response = [kind |-> "ERROR unknown command", val |-> 0]
                  /\ conn'[c].wst = "responding"
         /\ (WorkerWrite(c) /\ conn[c].line = Bogus)
               => /\ conn'[c].resp = [kind |-> "ERROR unknown command", val |-> 0]
                  /\ conn'[c].wst = "done"
         /\ (conn[c].line = Bogus \/ conn'[c].line = Bogus)
               => /\ conn'[c].wst \in {"none", "backlog", "reading", "responding", "done"}
                  /\ conn'[c] # conn[c] => DaemonState' = DaemonState]_vars

\* the client that sent `bogus` has read the response and its worker is gone
C12_Witness ==
    \E c \in Conns :
        /\ conn[c].line = Bogus /\ conn[c].cst = "got" /\ conn[c].wst = "done"
        /\ conn[c].resp = RespUnknown

Max(a, b) == IF a > b THEN a ELSE b

\* C13 (stated as the claim): an `up <n>` that reports a value reports
\* min(current + n, 100), never less than the current value, and a `down <n>`
\* reports max(current - n, 0), never more than the current value, n being
\* the u16 the daemon parsed.
C13_UpDownByN ==
    [][\A c \in Conns :
         LET req == Request(conn[c].line)
             current == conn[c].cur IN
         (WorkerSetLeave(c) /\ req.cmd \in {"up", "down"})
            => IF req.cmd = "up"
               THEN /\ conn'[c].response.val = Min(current + req.arg, MaxBrightness)
                    /\ conn'[c].response.val >= current
               ELSE /\ conn'[c].response.val = Max(current - req.arg, 0)
                    /\ conn'[c].response.val <= current]_vars

\* the part of C13 the code does satisfy: steps up to i16::MAX
C13_UpDownBySmallN ==
    [][\A c \in Conns :
         LET req == Request(conn[c].line)
             current == conn[c].cur IN
         (WorkerSetLeave(c) /\ req.cmd \in {"up", "down"}
            /\ req.arg <= I16Max)
            => IF req.cmd = "up"
               THEN conn'[c].response.val = Min(current + req.arg, MaxBrightness)
               ELSE conn'[c].response.val = Max(current - req.arg, 0)]_vars

\* the response to `line` is that of an adjust by +5, an adjust by -5 or a
\* set 50 made with the first display at `current`
AnsweredByDefault(line, current, response) ==
    \/ /\ line \in {UpNoArg, UpBadArg}
       /\ response \in {RespOk(Min(current + 5, MaxBrightness)), RespError}
    \/ /\ line \in {DownNoArg, DownBadArg}
       /\ response \in {RespOk(Max(current - 5, 0)), RespError}
    \/ /\ line \in {SetNoArg, SetBadArg}
       /\ response = RespOk(50)

\* C14 (stated as the claim): a request `up`, `down` or `set` whose argument
\* is missing or is no number is never answered `ERROR unknown command`; the
\* worker goes on to the manager and answers as for step 5 or value 50.
C14_ArgumentDefaults ==
    [][\A c \in Conns :
         conn[c].line \in {UpNoArg, DownNoArg, SetNoArg, UpBadArg, DownBadArg, SetBadArg}
            => /\ WorkerRead(c)
                    => (conn'[c].response # RespUnknown /\ conn'[c].wst = "wantlock")
               /\ (ManagerStep(c) /\ conn'[c].wst = "responding")
                    => AnsweredByDefault(conn[c].line, CurrentOf(c), conn'[c].response)]_vars

\* the part of C14 the code does satisfy: an argument that is no number
C14_UnparseableDefaults ==
    [][\A c \in Conns :
         conn[c].line \in {UpBadArg, DownBadArg, SetBadArg}
            => /\ WorkerRead(c)
                    => (conn'[c].response # RespUnknown /\ conn'[c].wst = "wantlock")
               /\ (ManagerStep(c) /\ conn'[c].wst = "responding")
                    => AnsweredByDefault(conn[c].line, CurrentOf(c), conn'[c].response)]_vars

\* C20 (stated as the claim): whatever the request, the worker that has taken
\* the manager lock finishes its operation with a response to write and
\* releases the lock unpoisoned, so that no later worker fails to take it.
C20_NoFailureUnderLock ==
    [][\A c \in Conns :
         /\ ManagerStep(c)
               => /\ conn'[c].wst \in {"adjusting", "writing", "responding"}
                  /\ ~poisoned'[conn[c].srv]
                  /\ conn'[c].wst = "responding"
                        => (conn'[c].response # NoResp /\ lock'[conn[c].srv] = NoHolder)
         /\ WorkerLock(c) => conn'[c].wst = "locked"]_vars

\* the part of C20 the code does satisfy: a build without overflow checks
C20_NoFailureUnchecked ==
    [][\A c \in Conns :
         ~overflowChecks =>
           /\ ManagerStep(c)
                 => /\ conn'[c].wst \in {"adjusting", "writing", "responding"}
                    /\ ~poisoned'[conn[c].srv]
                    /\ conn'[c].wst = "responding"
                          => (conn'[c].response # NoResp /\ lock'[conn[c].srv] = NoHolder)
           /\ WorkerLock(c) => conn'[c].wst = "locked"]_vars

\* daemon d listens on the socket path
ListeningOnPath(d) == dpc[d] = "listening" /\ sock = FileOf(d)
\* start_daemon of d has returned an error
StartFailed(d) == dpc[d] \in {"already_running", "no_displays", "bind_failed"}

\* C19 (stated as the claim): once two or more daemons have been started, at
\* most one listens on the socket path, the pid file holds the pid of the
\* daemon that listens, and no failed start has left its pid in the pid file.
C19_SingleInstance ==
    (\E d \in Daemons : \E e \in Daemons \ {d} : dpc[d] # "init" /\ dpc[e] # "init")
        => /\ \A d \in Daemons : \A e \in Daemons \ {d} :
                ~(ListeningOnPath(d) /\ ListeningOnPath(e))
           /\ \A d \in Daemons : ListeningOnPath(d) => pidfile = FileOf(d)
           /\ \A d \in Daemons : StartFailed(d) => pidfile # FileOf(d)

\* C19, the pid of the listener alone: violated without any failed start
C19_PidOfListener ==
    \A d \in Daemons :
        (ListeningOnPath(d) /\ \A e \in Daemons : ~StartFailed(e))
            => pidfile \in {FileOf(d), NoFile}

\* the part of C19 the code does satisfy: a bind succeeds only when no daemon
\* listens on the path, and it is the only way to start listening
C19_OneListener ==
    [][\A d \in Daemons :
         (dpc[d] # "listening" /\ dpc'[d] = "listening")
            => /\ Bind(d)
               /\ \A e \in Daemons : ~ListeningOnPath(e)
               /\ sock' = FileOf(d)]_vars

\* C18: a get_brightness of the caching manager that returns an error has
\* attempted one read, on the first display, and leaves the cached value and
\* both timestamps as they were; a `get` of the daemon is answered with the
\* brightness JSON or with the placeholder JSON; with that response the lock
\* is free and unpoisoned and the daemon and the displays are as before, and
\* the worker writes it and returns.
C18_ReadFailure ==
    [][/\ (DdcHiGet /\ out'.ret.tag # "ok")
            => /\ out'.ret = Err
               /\ out'.readOn = {FirstDisplay}
               /\ UNCHANGED <<temp, last_get, last_set, hw>>
       /\ \A c \in Conns :
            (backend = "main" /\ WorkerGet(c))
               => /\ conn'[c].response \in {[kind |-> "json", val |-> hw[FirstDisplay]],
                                            [kind |-> "errjson", val |-> 0]}
                  /\ conn'[c].wst = "responding"
                  /\ lock'[conn[c].srv] = NoHolder
                  /\ UNCHANGED <<poisoned, hw, dpc, sock, pidfile>>
       /\ \A c \in Conns :
            (backend = "main" /\ WorkerWrite(c) /\ Request(conn[c].line).cmd = "get")
               => /\ conn'[c].resp = conn[c].response
                  /\ conn'[c].wst = "done"
                  /\ UNCHANGED <<lock, poisoned, hw, dpc, sock, pidfile>>]_vars

\* a client of the daemon has read the placeholder JSON
C18_Witness ==
    backend = "main" /\ \E c \in Conns :
        /\ Request(conn[c].line).cmd = "get" /\ conn[c].cst = "got"
        /\ conn[c].resp = RespErrJson
        /\ dpc[conn[c].srv] = "listening" /\ ~poisoned[conn[c].srv]

\* x brought into 0..100
ClampInt(x) == Max(0, Min(x, MaxBrightness))
\* the signed step of the up or down request of connection c
Delta(c) == StepOf(Request(conn[c].line), overflowChecks).val
\* two adjusts have both reached hardware, c first and k second: c read the
\* start value 50, k read what c wrote, and the first display holds what k wrote
AdjustedInTurn(c, k) ==
    /\ conn[c].wst = "done" /\ conn[k].wst = "done"
    /\ Request(conn[c].line).cmd \in {"up", "down"}
    /\ Request(conn[k].line).cmd \in {"up", "down"}
    /\ conn[c].resp.kind = "OK" /\ conn[k].resp.kind = "OK"
    /\ conn[c].cur = 50
    /\ conn[k].cur = conn[c].resp.val
    /\ hw[FirstDisplay] = conn[k].resp.val

\* C17 (stated as the claim): two concurrent adjusts by a and b that both
\* reach hardware leave the brightness at clamp(start + a + b).
C17_SumOfAdjusts ==
    \A c \in ConcurrentConns : \A k \in ConcurrentConns \ {c} :
        AdjustedInTurn(c, k)
            => hw[FirstDisplay] = ClampInt(50 + Delta(c) + Delta(k))

\* C17 (amended): a worker inside a manager operation holds the manager lock
\* and no other worker is inside one; the value an adjust read is still the
\* brightness of the first display until the adjust writes it; and two adjusts by
\* a and b that both reach hardware leave clamp(clamp(start + a) + b), a being
\* the one that took the lock first.
C17_Atomic ==
    /\ [](\A c \in Conns :
            InManager(c)
               => /\ lock[conn[c].srv] = c
                  /\ \A k \in Conns \ {c} : ~InManager(k))
    /\ [](\A c \in Conns :
            (\/ conn[c].wst = "adjusting"
             \/ /\ conn[c].wst = "writing"
                /\ Request(conn[c].line).cmd \in {"up", "down"}
                /\ FirstDisplay \notin conn[c].wrote)
               => hw[FirstDisplay] = conn[c].cur)
    /\ [](\A c \in ConcurrentConns : \A k \in ConcurrentConns \ {c} :
            AdjustedInTurn(c, k)
               => hw[FirstDisplay] = ClampInt(ClampInt(50 + Delta(c)) + Delta(k)))

\* `up 70` and `down 70` were served one after the other: 50, 100, 30
C17_Witness ==
    \E c \in ConcurrentConns : \E k \in ConcurrentConns \ {c} :
        /\ AdjustedInTurn(c, k)
        /\ Delta(c) = 70 /\ Delta(k) = -70
        /\ hw[FirstDisplay] = 30

\* C16: the cached value and the write timestamp change only in the step that
\* ends a set_brightness call whose writes have been attempted on every
\* display, and that step sets them to the clamped value and the current
\* time; a call that reached hardware returns only in that step, so once per
\* call; while any write is outstanding the cache is as the call found it.
C16_CacheAfterFanOut ==
    [][/\ (temp' # temp \/ last_set' # last_set)
            => /\ out.ret = Pending /\ out.wroteOn = Displays
               /\ out'.ret = Ok(Clamped(out.arg))
               /\ temp' = Clamped(out.arg) /\ last_set' = now
       /\ (out.ret = Pending /\ out'.ret # Pending)
            => /\ out.wroteOn = Displays
               /\ out'.ret = Ok(Clamped(out.arg))
               /\ backend = "ddchi" => (temp' = Clamped(out.arg) /\ last_set' = now)
       /\ (out.ret = Pending /\ out.wroteOn # Displays)
            => UNCHANGED <<temp, last_set>>]_vars

\* a set(150) of the caching manager has returned: the fan-out took time, a
\* display failed, and the cache holds 100 and the time after the fan-out
C16_Witness ==
    /\ backend = "ddchi"
    /\ out.op = "set" /\ out.ret = Ok(MaxBrightness) /\ out.wroteOn = Displays
    /\ temp = MaxBrightness /\ last_set > out.at
    /\ \E d \in Displays : hw[d] # MaxBrightness

\* the line send_command reads from a worker that ended as cn: its response,
\* or nothing but the end of the stream when it died without writing
LineRead(cn) == IF cn.wst = "dropped" THEN RespEof ELSE cn.response
\* the hardware read of the worker's operation succeeded
ReadSucceeded(cn) == cn.response \notin {RespErrJson, RespError}

\* C15 (stated as the claim): for get, up, down and set, what the CLI prints
\* and its exit status after the daemon's worker has served the request are
\* what the direct fallback gives for the same request, the same brightness
\* and the same hardware behaviour.
C15_DaemonDirectEquivalence ==
    [][\A c \in Conns :
         LET req == Request(conn[c].line) IN
         (ManagerStep(c) /\ conn'[c].wst \in {"responding", "dropped"})
            => DaemonOutcome(req, LineRead(conn'[c]))
                 = DirectOutcome(req, TRUE, ReadSucceeded(conn'[c]), overflowChecks,
                                 CurrentOf(c))]_vars

\* the part of C15 the code does satisfy: the hardware read succeeds and the
\* worker does not panic
C15_EquivalentWhenAllGoesWell ==
    [][\A c \in Conns :
         LET req == Request(conn[c].line) IN
         (ManagerStep(c) /\ ReadSucceeded(conn'[c]) /\ conn'[c].wst = "responding")
            => DaemonOutcome(req, LineRead(conn'[c]))
                 = DirectOutcome(req, TRUE, TRUE, overflowChecks, CurrentOf(c))]_vars

====
